---- MODULE Spec2Model ----
(***************************************************************************)
(* A model of libninja's OpenAPI extraction core (core/src/extractor.rs):  *)
(* the spec sanitizer (alias collapsing and pruning of unused records),    *)
(* the operation-name heuristic, the security extractor, the server        *)
(* extractor, the parameter merge of extract_inputs and the choice of the  *)
(* success response that gives an operation its return type.               *)
(*                                                                         *)
(* Strings are sequences of one-character strings, so that split, join,    *)
(* starts_with, ends_with, contains and the case conversions are computed  *)
(* on characters as the code computes them.                                *)
(***************************************************************************)
EXTENDS Integers, Sequences, FiniteSets, TLC

VARIABLES
    pc,               \* position of the running extraction step
    operations,       \* MirSpec.operations
    schemas,          \* MirSpec.schemas: record name -> Record
    prev_schemas,     \* history: the schema table before the latest sanitizer step
    input_schemas,    \* history: the schema table handed to sanitize_spec
    method,           \* make_name_from_method_and_url: argument
    url,              \* make_name_from_method_and_url: argument
    op_name,          \* make_name_from_method_and_url: result
    servers,          \* OpenAPI.servers
    server_map,       \* extract_servers: result
    service_name,     \* LibraryOptions.service_name
    scheme_key,       \* the security requirement's scheme key
    scheme,           \* the security scheme it names
    auth_field,       \* extract_security_fields: the AuthorizationParameter pushed
    op_parameters,    \* oa::Operation.parameters, resolved
    item_parameters,  \* PathItem.parameters, resolved
    request_body,     \* the operation's JSON request schema, if any
    inputs,           \* extract_inputs: result
    parameters,       \* hir::Operation.parameters: the inputs sorted by name
    responses,        \* oa::Operation.responses.responses: status code -> response
    response_components, \* OpenAPI.components.responses: name -> response
    op_ret            \* hir::Operation.ret

sanitizerVars == <<operations, schemas, prev_schemas, input_schemas>>
namingVars    == <<method, url, op_name>>
serverVars    == <<servers, server_map>>
securityVars  == <<service_name, scheme_key, scheme, auth_field>>
inputVars     == <<op_parameters, item_parameters, request_body, inputs, parameters>>
responseVars  == <<responses, response_components, op_ret>>
vars == <<pc, sanitizerVars, namingVars, serverVars, securityVars, inputVars,
          responseVars>>

\* The value of a variable that the running component does not use.
Unused == <<>>

SanitizerIdle == /\ operations = Unused /\ schemas = Unused
                 /\ prev_schemas = Unused /\ input_schemas = Unused
NamingIdle    == /\ method = Unused /\ url = Unused /\ op_name = Unused
ServerIdle    == /\ servers = Unused /\ server_map = Unused
SecurityIdle  == /\ service_name = Unused /\ scheme_key = Unused
                 /\ scheme = Unused /\ auth_field = Unused
InputIdle     == /\ op_parameters = Unused /\ item_parameters = Unused
                 /\ request_body = Unused /\ inputs = Unused
                 /\ parameters = Unused
ResponseIdle  == /\ responses = Unused /\ response_components = Unused
                 /\ op_ret = Unused

----------------------------------------------------------------------------
(* Strings *)

Range(s) == {s[i] : i \in 1..Len(s)}

\* str::starts_with
StartsWith(s, p) == Len(p) <= Len(s) /\ SubSeq(s, 1, Len(p)) = p

\* str::ends_with
EndsWith(s, p) == Len(p) <= Len(s) /\ SubSeq(s, Len(s) - Len(p) + 1, Len(s)) = p

\* str::contains
Contains(s, p) == \E i \in 0..(Len(s) - Len(p)) : SubSeq(s, i + 1, i + Len(p)) = p

\* &s[from..] with from counted from 0
Tail_from(s, from) == SubSeq(s, from + 1, Len(s))

RECURSIVE Concat(_)
\* concatenation of a sequence of strings
Concat(ss) == IF ss = <<>> THEN <<>> ELSE Head(ss) \o Concat(Tail(ss))

RECURSIVE Join(_, _)
\* [&str]::join
Join(ss, sep) ==
    IF ss = <<>> THEN <<>>
    ELSE IF Len(ss) = 1 THEN Head(ss)
    ELSE Head(ss) \o sep \o Join(Tail(ss), sep)

RECURSIVE Split(_, _)
\* str::split(char): the pieces between the separators, empty pieces included
Split(s, sep) ==
    IF \A i \in 1..Len(s) : s[i] # sep THEN <<s>>
    ELSE LET i == CHOOSE k \in 1..Len(s) : s[k] = sep /\ \A j \in 1..(k - 1) : s[j] # sep
         IN  <<SubSeq(s, 1, i - 1)>> \o Split(SubSeq(s, i + 1, Len(s)), sep)

LowerChars == <<"a","b","c","d","e","f","g","h","i","j","k","l","m",
                "n","o","p","q","r","s","t","u","v","w","x","y","z">>
UpperChars == <<"A","B","C","D","E","F","G","H","I","J","K","L","M",
                "N","O","P","Q","R","S","T","U","V","W","X","Y","Z">>

IsLower(c) == c \in Range(LowerChars)
IsUpper(c) == c \in Range(UpperChars)
IndexIn(c, alphabet) == CHOOSE i \in 1..Len(alphabet) : alphabet[i] = c
LowerChar(c) == IF IsUpper(c) THEN LowerChars[IndexIn(c, UpperChars)] ELSE c
UpperChar(c) == IF IsLower(c) THEN UpperChars[IndexIn(c, LowerChars)] ELSE c

\* str::to_lowercase
to_lowercase(s) == [i \in 1..Len(s) |-> LowerChar(s[i])]
to_uppercase(s) == [i \in 1..Len(s) |-> UpperChar(s[i])]

----------------------------------------------------------------------------
(* hir::Ty, hir::Record *)

TyString     == [tag |-> "String"]
TyUnit       == [tag |-> "Unit"]
TyAny        == [tag |-> "Any"]
TyModel(n)   == [tag |-> "Model", name |-> n]
TyArray(ty)  == [tag |-> "Array", inner |-> ty]

RECURSIVE inner_model(_)
\* Ty::inner_model: the record name a type refers to, through arrays;
\* the Option is the set of at most one name
inner_model(ty) ==
    IF ty.tag = "Model" THEN {ty.name}
    ELSE IF ty.tag = "Array" THEN inner_model(ty.inner)
    ELSE {}

HirField(ty, optional) == [ty |-> ty, optional |-> optional]
Struct(fs)             == [kind |-> "Struct", fields |-> fs]
TypeAlias(f)           == [kind |-> "TypeAlias", fields |-> <<f>>]

\* Record::fields / Record::fields_mut: a struct's fields, an alias's single field
fields(record) == record.fields

\* Record::optional: an alias is optional when its field is
RecordOptional(record) == record.kind = "TypeAlias" /\ record.fields[1].optional

\* hir::Parameter
Parameter(name, location, ty, optional) ==
    [name |-> name, location |-> location, ty |-> ty, optional |-> optional]

\* hir::Operation, with the fields the extractor computes from types
Operation(ret, params) == [ret |-> ret, parameters |-> params]

----------------------------------------------------------------------------
(* Spec sanitizer: remove_unused and sanitize_spec *)

WebhookSuffix == <<"W","e","b","h","o","o","k">>

\* mutant of UsedNames: the operations' return types are not collected
UsedNames_without_returns(ops, tbl) ==
    LET ofRecord(r) == UNION {inner_model(fields(r)[i].ty) : i \in 1..Len(fields(r))}
        ofOperation(op) ==
            UNION {inner_model(op.parameters[p].ty) : p \in 1..Len(op.parameters)}
    IN  UNION {ofRecord(tbl[n]) : n \in DOMAIN tbl}
        \cup UNION {ofOperation(ops[o]) : o \in 1..Len(ops)}

\* mutant of UsedNames: the loop over the operations is missing
UsedNames_fields_only(ops, tbl) ==
    LET ofRecord(r) == UNION {inner_model(fields(r)[i].ty) : i \in 1..Len(fields(r))}
    IN  UNION {ofRecord(tbl[n]) : n \in DOMAIN tbl}

\* the `used` set remove_unused collects: every name a field of a record in the
\* table refers to, and every name an operation's return or parameter type refers to
UsedNames(ops, tbl) ==
    LET ofRecord(r) == UNION {inner_model(fields(r)[i].ty) : i \in 1..Len(fields(r))}
        ofOperation(op) ==
            inner_model(op.ret)
            \cup UNION {inner_model(op.parameters[p].ty) : p \in 1..Len(op.parameters)}
    IN  UNION {ofRecord(tbl[n]) : n \in DOMAIN tbl}
        \cup UNION {ofOperation(ops[o]) : o \in 1..Len(ops)}

\* mutant of Retained: no exemption for the webhook suffix
Retained_used_only(name, used) == name \in used

\* the predicate of spec.schemas.retain
Retained(name, used) == name \in used \/ EndsWith(name, WebhookSuffix)

\* remove_unused: the table restricted to the retained names
remove_unused(ops, tbl) ==
    LET used == UsedNames(ops, tbl)
        keep == {n \in DOMAIN tbl : Retained(n, used)}
    IN  [n \in keep |-> tbl[n]]

\* the map optional_short_circuit of sanitize_spec: every optional TypeAlias
\* whose target is a Model, to that target (a TypeAlias carries the name it is
\* stored under)
optional_short_circuit(tbl) ==
    LET aliases == {n \in DOMAIN tbl :
                      /\ RecordOptional(tbl[n])
                      /\ tbl[n].fields[1].ty.tag = "Model"}
    IN  [a \in aliases |-> tbl[a].fields[1].ty.name]

\* mutant of RewriteField: the field is renamed but not made optional
RewriteField_keeps_optional(field, short) ==
    IF field.ty.tag = "Model" /\ field.ty.name \in DOMAIN short
    THEN HirField(TyModel(short[field.ty.name]), field.optional)
    ELSE field

\* the body of the rewriting loop, for one field
RewriteField(field, short) ==
    IF field.ty.tag = "Model" /\ field.ty.name \in DOMAIN short
    THEN HirField(TyModel(short[field.ty.name]), TRUE)
    ELSE field

\* the rewriting loop of sanitize_spec over spec.schemas.values_mut()
CollapseAliases(tbl) ==
    LET short == optional_short_circuit(tbl)
    IN  [n \in DOMAIN tbl |->
           [tbl[n] EXCEPT !.fields =
              [i \in 1..Len(tbl[n].fields) |-> RewriteField(tbl[n].fields[i], short)]]]

\* Bound: the number of fields in the whole input schema table.
MaxFields == 2

NameA == <<"A">>
NameB == <<"B">>
NameC == <<"C">>
NameAWebhook == <<"A">> \o WebhookSuffix
NameOrder == <<NameA, NameB, NameC, NameAWebhook>>
RecordNames == Range(NameOrder)
NameIndex(n) == CHOOSE i \in 1..Len(NameOrder) : NameOrder[i] = n

\* the field types of the input tables
FieldTyPool == {TyModel(NameA), TyModel(NameB), TyModel(NameC), TyArray(TyModel(NameC))}

\* the operation lists of the input IRs
OperationPool ==
    { <<>>,
      <<Operation(TyModel(NameA), <<>>)>>,
      <<Operation(TyArray(TyModel(NameC)), <<>>),
        Operation(TyUnit, <<Parameter(<<"q">>, "Path", TyString, FALSE),
                            Parameter(<<"p">>, "Body", TyModel(NameB), TRUE)>>)>> }

FieldDecl == [owner : RecordNames, ty : FieldTyPool, optional : BOOLEAN]

\* the field declarations of a table, grouped by owner in the table's order
FieldDeclSeqs ==
    UNION {{d \in [1..k -> FieldDecl] :
              \A i \in 1..(k - 1) : NameIndex(d[i].owner) <= NameIndex(d[i + 1].owner)} :
           k \in 0..MaxFields}

FieldsOf(decls, n) ==
    LET own == SelectSeq(decls, LAMBDA d : d.owner = n)
    IN  [i \in 1..Len(own) |-> HirField(own[i].ty, own[i].optional)]

\* the input table with the declared fields, `aliases` the owners that are
\* TypeAlias records and `empty` the structs without fields
TableOf(decls, aliases, empty) ==
    LET owners == {decls[i].owner : i \in 1..Len(decls)}
    IN  [n \in owners \cup empty |->
           IF n \in aliases THEN TypeAlias(FieldsOf(decls, n)[1])
           ELSE Struct(FieldsOf(decls, n))]

SanitizerInit ==
    /\ pc = "sanitize_spec"
    /\ operations \in OperationPool
    /\ \E decls \in FieldDeclSeqs :
         LET owners == {decls[i].owner : i \in 1..Len(decls)}
             single == {n \in owners : Len(FieldsOf(decls, n)) = 1}
         IN  \E aliases \in SUBSET single, empty \in SUBSET (RecordNames \ owners) :
               schemas = TableOf(decls, aliases, empty)
    /\ prev_schemas = schemas
    /\ input_schemas = schemas
    /\ NamingIdle /\ ServerIdle /\ SecurityIdle /\ InputIdle /\ ResponseIdle

othersOfSanitizer == <<namingVars, serverVars, securityVars, inputVars, responseVars>>

\* sanitize_spec, lines 315-338: collapse the optional aliases
SkipAliasStructs ==
    /\ pc = "sanitize_spec"
    /\ prev_schemas' = schemas
    /\ schemas' = CollapseAliases(schemas)
    /\ pc' = "remove_unused_1"
    /\ UNCHANGED <<operations, input_schemas, othersOfSanitizer>>

\* sanitize_spec, line 341: the first remove_unused
RemoveUnusedFirst ==
    /\ pc = "remove_unused_1"
    /\ prev_schemas' = schemas
    /\ schemas' = remove_unused(operations, schemas)
    /\ pc' = "remove_unused_2"
    /\ UNCHANGED <<operations, input_schemas, othersOfSanitizer>>

\* mutant of RemoveUnusedSecond: sanitize_spec returns after one pass
RemoveUnusedSecond_skipped ==
    /\ pc = "remove_unused_2"
    /\ prev_schemas' = schemas
    /\ schemas' = schemas
    /\ pc' = "sanitized"
    /\ UNCHANGED <<operations, input_schemas, othersOfSanitizer>>

\* sanitize_spec, line 345: the second remove_unused, after which it returns
RemoveUnusedSecond ==
    /\ pc = "remove_unused_2"
    /\ prev_schemas' = schemas
    /\ schemas' = remove_unused(operations, schemas)
    /\ pc' = "sanitized"
    /\ UNCHANGED <<operations, input_schemas, othersOfSanitizer>>

\* remove_unused run once more on the sanitized IR
RemoveUnusedThird ==
    /\ pc = "sanitized"
    /\ prev_schemas' = schemas
    /\ schemas' = remove_unused(operations, schemas)
    /\ pc' = "third_pass"
    /\ UNCHANGED <<operations, input_schemas, othersOfSanitizer>>

SanitizerNext ==
    \/ SkipAliasStructs
    \/ RemoveUnusedFirst
    \/ RemoveUnusedSecond
    \/ RemoveUnusedThird

SpecSanitizer == SanitizerInit /\ [][SanitizerNext]_vars

----------------------------------------------------------------------------
(* Properties of the sanitizer *)

RECURSIVE ModelNamesIn(_)
\* the record names a type mentions
ModelNamesIn(ty) ==
    IF ty.tag = "Model" THEN {ty.name}
    ELSE IF ty.tag = "Array" THEN ModelNamesIn(ty.inner)
    ELSE {}

\* the names the fields of a record mention
FieldRefs(record) == UNION {ModelNamesIn(record.fields[i].ty) : i \in 1..Len(record.fields)}

\* the names the operations' return and parameter types mention
OperationRefs(ops) ==
    UNION {ModelNamesIn(ops[o].ret)
           \cup UNION {ModelNamesIn(ops[o].parameters[p].ty) : p \in 1..Len(ops[o].parameters)} :
           o \in 1..Len(ops)}

TableRefs(tbl) == UNION {FieldRefs(tbl[n]) : n \in DOMAIN tbl}

HasWebhookName(n) == Len(n) >= 7 /\ SubSeq(n, Len(n) - 6, Len(n)) = <<"W","e","b","h","o","o","k">>

RECURSIVE ReachFrom(_, _)
\* the names reachable from the set `seen` through fields of records of tbl
ReachFrom(seen, tbl) ==
    LET next == seen \cup UNION {FieldRefs(tbl[n]) : n \in seen \cap DOMAIN tbl}
    IN  IF next = seen THEN seen ELSE ReachFrom(next, tbl)

\* the names referenced transitively from some operation
ReachableFromOperations(ops, tbl) == ReachFrom(OperationRefs(ops), tbl)

\* every Model reference of the IR names a record of the table
NoDangling(ops, tbl) == OperationRefs(ops) \cup TableRefs(tbl) \subseteq DOMAIN tbl

\* C1: after sanitize_spec, for an input IR without dangling Model references, every
\* record name referenced by an operation's parameter or return type, or by a field
\* of a record still in the schema table, is a key of the schema table.
C1_NoDanglingAfterSanitize ==
    (pc = "sanitized" /\ NoDangling(operations, input_schemas))
        => NoDangling(operations, schemas)

\* C1 witness: a sanitized IR in which an optional alias was collapsed and removed
\* while a record that referred to it in the input is still in the table
C1_Witness ==
    /\ pc = "sanitized"
    /\ NoDangling(operations, input_schemas)
    /\ \E a \in DOMAIN input_schemas \ DOMAIN schemas, r \in DOMAIN schemas :
         /\ input_schemas[a].kind = "TypeAlias"
         /\ input_schemas[a].fields[1].optional
         /\ a \in FieldRefs(input_schemas[r])
         /\ FieldRefs(schemas[r]) # {}

\* C2 as stated: a third remove_unused pass removes no record.
C2_ThirdPassRemovesNothing == pc = "third_pass" => schemas = prev_schemas

\* the map M of C9 and C2: every optional TypeAlias whose target is a Model, to the target
AliasTargets(tbl) ==
    LET as == {n \in DOMAIN tbl :
                 /\ tbl[n].kind = "TypeAlias"
                 /\ tbl[n].fields[1].optional
                 /\ tbl[n].fields[1].ty.tag = "Model"}
    IN  [a \in as |-> tbl[a].fields[1].ty.name]

\* the table with every field Model(a), a an optional alias of a Model, redirected
\* to the alias's target
WithAliasesCollapsed(tbl) ==
    LET M == AliasTargets(tbl)
        redirect(f) == IF f.ty.tag = "Model" /\ f.ty.name \in DOMAIN M
                       THEN [ty |-> [tag |-> "Model", name |-> M[f.ty.name]], optional |-> TRUE]
                       ELSE f
    IN  [n \in DOMAIN tbl |->
           [kind |-> tbl[n].kind,
            fields |-> [i \in 1..Len(tbl[n].fields) |-> redirect(tbl[n].fields[i])]]]

\* C2 amended: a third remove_unused pass removes only records whose name does not
\* end in "Webhook" and that no operation reaches through the fields of the input
\* records (aliases collapsed); every other record of the two-pass table is kept with
\* its body, and no record is added.
C2_ThirdPassRemovesOnlyUnreachable ==
    pc = "third_pass" =>
        /\ DOMAIN schemas \subseteq DOMAIN prev_schemas
        /\ \A n \in DOMAIN prev_schemas :
             \/ n \in DOMAIN schemas /\ schemas[n] = prev_schemas[n]
             \/ /\ ~HasWebhookName(n)
                /\ n \notin ReachableFromOperations(operations,
                                                    WithAliasesCollapsed(input_schemas))

\* C2 witness: a third pass that removed a record and kept a Webhook record
C2_Witness ==
    /\ pc = "third_pass"
    /\ DOMAIN schemas # DOMAIN prev_schemas
    /\ \E n \in DOMAIN schemas : HasWebhookName(n)

\* C7 as stated: after sanitize_spec every record left is referenced transitively
\* from some operation or has a name ending in "Webhook".
C7_OnlyReachableSurvive ==
    pc = "sanitized" =>
        \A n \in DOMAIN schemas :
            n \in ReachableFromOperations(operations, schemas) \/ HasWebhookName(n)

\* C7 amended: after sanitize_spec every record left has a name ending in "Webhook",
\* or is referenced by an operation's parameter or return type, or is referenced by
\* a field of a record (possibly itself) that was still in the table after the
\* first pass.
C7_SurvivorsReferencedAfterFirstPass ==
    pc = "sanitized" =>
        \A n \in DOMAIN schemas :
            \/ HasWebhookName(n)
            \/ n \in OperationRefs(operations)
            \/ \E m \in DOMAIN prev_schemas : n \in FieldRefs(prev_schemas[m])

\* C7 witness: a sanitized IR that lost a record in the second pass and still holds
\* a record no operation reaches
C7_Witness ==
    /\ pc = "sanitized"
    /\ DOMAIN schemas # DOMAIN prev_schemas
    /\ \E n \in DOMAIN schemas :
         /\ ~HasWebhookName(n)
         /\ n \notin ReachableFromOperations(operations, schemas)

\* C8: one remove_unused pass retains a record iff its name is referenced, at the
\* start of the pass, by an operation's parameter or return type or by a field of a
\* record then in the table, or ends with "Webhook"; it adds no record and changes
\* no retained body; a record named ...Webhook of the input survives sanitize_spec.
C8_PassRetainsExactlyUsedOrWebhook ==
    /\ pc \in {"remove_unused_2", "sanitized", "third_pass"} =>
         /\ DOMAIN schemas =
              {n \in DOMAIN prev_schemas :
                 \/ n \in OperationRefs(operations) \cup TableRefs(prev_schemas)
                 \/ HasWebhookName(n)}
         /\ \A n \in DOMAIN schemas : schemas[n] = prev_schemas[n]
    /\ pc = "sanitized" =>
         \A n \in DOMAIN input_schemas : HasWebhookName(n) => n \in DOMAIN schemas

\* C8 witness: a sanitized IR that keeps a Webhook record nothing refers to, after a
\* second pass that removed a record
C8_Witness ==
    /\ pc = "sanitized"
    /\ DOMAIN schemas # DOMAIN prev_schemas
    /\ \E n \in DOMAIN schemas :
         /\ HasWebhookName(n)
         /\ n \notin OperationRefs(operations) \cup TableRefs(prev_schemas)

\* the relation of C9 between the table before and after the collapsing step
CollapsedFrom(before, after) ==
    LET M == AliasTargets(before)
    IN  /\ DOMAIN after = DOMAIN before
        /\ \A n \in DOMAIN before :
             /\ after[n].kind = before[n].kind
             /\ Len(after[n].fields) = Len(before[n].fields)
             /\ \A i \in 1..Len(before[n].fields) :
                  LET f == before[n].fields[i]
                      g == after[n].fields[i]
                  IN  IF f.ty.tag = "Model" /\ f.ty.name \in DOMAIN M
                      THEN g.ty = [tag |-> "Model", name |-> M[f.ty.name]] /\ g.optional
                      ELSE g = f

\* C9: the collapsing step rewrites every field whose type is exactly Model(a), a an
\* optional TypeAlias with a Model target, to Model(target) and optional, keeps every
\* other field, and does not rewrite the operations.
C9_AliasCollapsing ==
    [][pc = "sanitize_spec" =>
         /\ CollapsedFrom(schemas, schemas')
         /\ operations' = operations]_vars

\* C9 witness: a collapsed table with a rewritten field that was not optional, and
\* a Model field that was left alone
C9_Witness ==
    /\ pc = "remove_unused_1"
    /\ \E n \in DOMAIN prev_schemas : \E i \in 1..Len(prev_schemas[n].fields) :
         /\ prev_schemas[n].fields[i].ty.tag = "Model"
         /\ prev_schemas[n].fields[i].ty.name \in DOMAIN AliasTargets(prev_schemas)
         /\ ~prev_schemas[n].fields[i].optional
         /\ schemas[n].fields[i].optional
         /\ schemas[n].fields[i].ty # prev_schemas[n].fields[i].ty
    /\ \E n \in DOMAIN prev_schemas : \E i \in 1..Len(prev_schemas[n].fields) :
         /\ prev_schemas[n].fields[i].ty.tag = "Model"
         /\ schemas[n].fields[i] = prev_schemas[n].fields[i]

----------------------------------------------------------------------------
(* Naming heuristic: make_name_from_method_and_url *)

\* the outcome of a call that panics (a slice index past the end of the string)
Panicked == <<"panicked">>

\* the segments of the url kept by .filter(|s| !s.starts_with('{'))
NonParamSegments(u) == SelectSeq(Split(u, "/"), LAMBDA seg : ~StartsWith(seg, <<"{">>))

\* the segments of the url kept by .filter(|s| s.starts_with('{'))
ParamSegments(u) == SelectSeq(Split(u, "/"), LAMBDA seg : StartsWith(seg, <<"{">>))

\* the closure mapped over the last parameter segment: Panicked, or "_by_<param>"
LastGroup(seg, names) ==
    IF Len(seg) < 2 THEN Panicked
    ELSE LET param == SubSeq(seg, 2, Len(seg) - 1)
         IN  IF names # <<>> /\ StartsWith(param, names[Len(names)])
             THEN IF Len(names[Len(names)]) + 1 > Len(param) THEN Panicked
                  ELSE <<"_","b","y","_">> \o Tail_from(param, Len(names[Len(names)]) + 1)
             ELSE <<"_","b","y","_">> \o param

make_name_from_method_and_url(m, u) ==
    LET names  == NonParamSegments(u)
        params == ParamSegments(u)
        last_group == IF params = <<>> THEN <<>>
                      ELSE LastGroup(params[Len(params)], names)
    IN  IF last_group = Panicked THEN Panicked
        ELSE m \o Join(names, <<"_">>) \o last_group

\* Bound: the number of path segments after the leading slash.
MaxSegments == 3

MethodPool == { <<"g","e","t">>, <<"p","o","s","t">> }

\* path segments: literals, and parameters that repeat the literal with a
\* separator ({u_i}), repeat it without one ({ui}), equal it ({u}) or differ ({i})
SegmentPool == { <<>>, <<"u">>, <<"a">>,
                 <<"{","u","_","i","}">>, <<"{","u","i","}">>, <<"{","u","}">>,
                 <<"{","i","}">>, <<"{","a","_","i","}">> }

\* the path templates: a leading slash and up to MaxSegments segments
UrlPool == UNION {{Join(<<<<>>>> \o segs, <<"/">>) : segs \in [1..k -> SegmentPool]} :
                  k \in 1..MaxSegments}

NamingInit ==
    /\ pc = "make_name"
    /\ method \in MethodPool
    /\ url \in UrlPool
    /\ op_name = Unused
    /\ SanitizerIdle /\ ServerIdle /\ SecurityIdle /\ InputIdle /\ ResponseIdle

\* extract_api_operations, line 238: an operation without operation_id is named
MakeName ==
    /\ pc = "make_name"
    /\ op_name' = make_name_from_method_and_url(method, url)
    /\ pc' = "named"
    /\ UNCHANGED <<method, url, sanitizerVars, serverVars, securityVars, inputVars,
                   responseVars>>

NamingNext == MakeName

SpecNaming == NamingInit /\ [][NamingNext]_vars

\* the separators after which a repeated segment name is dropped
NameSeparators == {"_", "-"}

\* the name C3 describes
ClaimedName(m, u) ==
    LET segs    == Split(u, "/")
        isParam(seg) == Len(seg) >= 1 /\ seg[1] = "{"
        plain   == SelectSeq(segs, LAMBDA seg : ~isParam(seg))
        params  == SelectSeq(segs, LAMBDA seg : isParam(seg))
        p       == SubSeq(params[Len(params)], 2, Len(params[Len(params)]) - 1)
        final   == plain[Len(plain)]
        prefixed == /\ plain # <<>>
                    /\ Len(p) > Len(final)
                    /\ SubSeq(p, 1, Len(final)) = final
                    /\ p[Len(final) + 1] \in NameSeparators
        suffix  == IF prefixed THEN SubSeq(p, Len(final) + 2, Len(p)) ELSE p
    IN  IF params = <<>> THEN m \o Join(plain, <<"_">>)
        ELSE m \o Join(plain, <<"_">>) \o <<"_","b","y","_">> \o suffix

\* C3: make_name_from_method_and_url returns method + the '_'-join of the non-parameter
\* segments + "_by_<p>" for the last parameter segment, where <p> loses the final
\* non-parameter segment's text from its front only when it starts with that text
\* followed by a separator.
C3_NameAsClaimed == pc = "named" => op_name = ClaimedName(method, url)

\* the two literal cases of the tests, in this alphabet: /u/{i} and /u/{u_i}/a/{a_i}
C3_TestCasesAgree ==
    /\ make_name_from_method_and_url(<<"g","e","t">>, <<"/","u","/","{","i","}">>)
         = <<"g","e","t","_","u","_","b","y","_","i">>
    /\ make_name_from_method_and_url(<<"g","e","t">>,
         <<"/","u","/","{","u","_","i","}","/","a","/","{","a","_","i","}">>)
         = <<"g","e","t","_","u","_","a","_","b","y","_","i">>

----------------------------------------------------------------------------
(* convert_case::Casing::to_case, on letters and the delimiters _ - and space *)

WordDelimiters == {"_", "-", " "}

\* a word boundary lies between s[i] and s[i+1]: lower then upper, or the end of an
\* acronym (upper, then upper followed by lower)
LetterBoundary(s, i) ==
    /\ i < Len(s)
    /\ \/ IsLower(s[i]) /\ IsUpper(s[i + 1])
       \/ IsUpper(s[i]) /\ IsUpper(s[i + 1]) /\ i + 2 <= Len(s) /\ IsLower(s[i + 2])

RECURSIVE SplitWords(_, _, _, _)
\* the words of s from position i on; cur is the word being read, acc the words read
SplitWords(s, i, cur, acc) ==
    LET flush(w) == IF w = <<>> THEN acc ELSE Append(acc, w)
    IN  IF i > Len(s) THEN flush(cur)
        ELSE IF s[i] \in WordDelimiters THEN SplitWords(s, i + 1, <<>>, flush(cur))
        ELSE IF LetterBoundary(s, i)
             THEN SplitWords(s, i + 1, <<>>, flush(Append(cur, s[i])))
             ELSE SplitWords(s, i + 1, Append(cur, s[i]), acc)

Words(s) == SplitWords(s, 1, <<>>, <<>>)

Capitalized(w) == IF w = <<>> THEN w ELSE <<UpperChar(w[1])>> \o to_lowercase(Tail(w))

\* to_case(Case::ScreamingSnake)
to_case_screaming_snake(s) ==
    Join([i \in 1..Len(Words(s)) |-> to_uppercase(Words(s)[i])], <<"_">>)

\* to_case(Case::Snake)
to_case_snake(s) ==
    Join([i \in 1..Len(Words(s)) |-> to_lowercase(Words(s)[i])], <<"_">>)

\* to_case(Case::Pascal)
to_case_pascal(s) == Concat([i \in 1..Len(Words(s)) |-> Capitalized(Words(s)[i])])

----------------------------------------------------------------------------
(* Security extractor: extract_security_fields, for one entry of a requirement *)

APIKey(location, name) == [kind |-> "APIKey", location |-> location, name |-> name]
HTTP(http_scheme)      == [kind |-> "HTTP", scheme |-> http_scheme]
OtherScheme            == [kind |-> "OAuth2"]

Bearer == [tag |-> "Bearer"]
Basic  == [tag |-> "Basic"]
Token  == [tag |-> "Token"]
Header(key) == [tag |-> "Header", key |-> key]
Query(key)  == [tag |-> "Query", key |-> key]
Cookie(key) == [tag |-> "Cookie", key |-> key]

BearerNames == { <<"b","e","a","r","e","r","_","a","u","t","h">>, <<"b","e","a","r","e","r">> }

\* mutant of APIKeyLocation: the header name is lower-cased, not snake-cased
APIKeyLocation_lowercase(location, name) ==
    IF location = "Header"
    THEN IF to_lowercase(name) \in BearerNames THEN Bearer ELSE Header(name)
    ELSE IF location = "Query" THEN Query(name)
    ELSE Cookie(name)

\* the match on an API key's location, lines 364-384
APIKeyLocation(location, name) ==
    IF location = "Header"
    THEN IF to_case_snake(name) \in BearerNames THEN Bearer ELSE Header(name)
    ELSE IF location = "Query" THEN Query(name)
    ELSE Cookie(name)

\* the outcomes of the match that are no AuthLocation: unimplemented!() panics,
\* an unsupported scheme returns Err
Unimplemented     == [tag |-> "unimplemented"]
UnsupportedScheme == [tag |-> "Err"]

\* the match on the scheme, lines 359-402
AuthLocationOf(sch) ==
    IF sch.kind = "APIKey" THEN APIKeyLocation(sch.location, sch.name)
    ELSE IF sch.kind = "HTTP"
         THEN IF sch.scheme = <<"b","a","s","i","c">> THEN Basic
              ELSE IF sch.scheme = <<"b","e","a","r","e","r">> THEN Bearer
              ELSE IF sch.scheme = <<"t","o","k","e","n">> THEN Token
              ELSE Unimplemented
    ELSE UnsupportedScheme

\* the env_var of the AuthorizationParameter, lines 406-417
EnvVar(name, service) ==
    IF StartsWith(to_lowercase(name), to_lowercase(service))
    THEN to_case_screaming_snake(name)
    ELSE to_case_screaming_snake(service) \o <<"_">> \o to_case_screaming_snake(name)

\* AuthorizationParameter
AuthorizationParameter(name, env_var, location) ==
    [name |-> name, env_var |-> env_var, location |-> location]

\* one iteration of the loop of extract_security_fields
extract_security_field(name, sch, service) ==
    LET location == AuthLocationOf(sch)
    IN  IF location \in {Unimplemented, UnsupportedScheme} THEN location
        ELSE AuthorizationParameter(name, EnvVar(name, service), location)

\* Bound: the number of words a security-scheme key is made of.
MaxKeyWords == 2

\* the service names given on the command line
CliNamePool == { <<"m","y","_","a","p","i">>, <<"m","y">>, <<"a","p","i">> }

KeyWordPool == { <<"m","y">>, <<"a","p","i">>, <<"A","p","i">>, <<"k","e","y">> }

\* the keys: words written together (myApi) or joined by an underscore (my_api)
SchemeKeyPool ==
    UNION {{Join(w, sep) : w \in [1..k -> KeyWordPool], sep \in {<<>>, <<"_">>}} :
           k \in 1..MaxKeyWords}

\* the names of the API keys
APIKeyNamePool == { <<"b","e","a","r","e","r">>, <<"B","e","a","r","e","r">>,
                   <<"B","E","A","R","E","R">>,
                   <<"b","e","a","r","e","r","_","a","u","t","h">>,
                   <<"b","e","a","r","e","r","A","u","t","h">>,
                   <<"B","e","a","r","e","r","A","u","t","h">>,
                   <<"B","e","a","r","e","r","-","A","u","t","h">>,
                   <<"b","e","a","r","e","r","a","u","t","h">>,
                   <<"A","u","t","h","o","r","i","z","a","t","i","o","n">>,
                   <<"X","-","A","p","i","-","K","e","y">>,
                   <<"a","p","i","_","k","e","y">>,
                   <<"b","e","a","r","e","r","_","t","o","k","e","n">> }

SchemePool ==
    {APIKey(l, n) : l \in {"Header", "Query", "Cookie"}, n \in APIKeyNamePool}
    \cup {HTTP(h) : h \in {<<"b","a","s","i","c">>, <<"b","e","a","r","e","r">>, <<"t","o","k","e","n">>, <<"d","i","g","e","s","t">>}}
    \cup {OtherScheme}

SecurityInit ==
    /\ pc = "extract_security_fields"
    /\ \E n \in CliNamePool : service_name = to_case_pascal(n)
    /\ scheme_key \in SchemeKeyPool
    /\ scheme \in SchemePool
    /\ auth_field = Unused
    /\ SanitizerIdle /\ NamingIdle /\ ServerIdle /\ InputIdle /\ ResponseIdle

\* extract_security_fields on a requirement with one entry
ExtractSecurityField ==
    /\ pc = "extract_security_fields"
    /\ auth_field' = extract_security_field(scheme_key, scheme, service_name)
    /\ pc' = "security_extracted"
    /\ UNCHANGED <<service_name, scheme_key, scheme,
                   sanitizerVars, namingVars, serverVars, inputVars, responseVars>>

SecurityNext == ExtractSecurityField

SpecSecurity == SecurityInit /\ [][SecurityNext]_vars

\* the letters of a string, upper-cased
UpperLetters(x) == to_uppercase(SelectSeq(x, LAMBDA c : c \notin WordDelimiters))

C5_ApiKeyAuthLocation ==
    (pc = "security_extracted" /\ scheme.kind = "APIKey") =>
        /\ "location" \in DOMAIN auth_field
        /\ auth_field.location =
             IF scheme.location = "Header"
             THEN IF to_case_snake(scheme.name) \in
                       { <<"b","e","a","r","e","r","_","a","u","t","h">>,
                         <<"b","e","a","r","e","r">> }
                  THEN [tag |-> "Bearer"]
                  ELSE [tag |-> "Header", key |-> scheme.name]
             ELSE IF scheme.location = "Query"
                  THEN [tag |-> "Query", key |-> scheme.name]
                  ELSE [tag |-> "Cookie", key |-> scheme.name]

\* C5 witness: a header API key named BearerAuth was extracted as Bearer
C5_Witness ==
    /\ pc = "security_extracted"
    /\ scheme.kind = "APIKey"
    /\ scheme.location = "Header"
    /\ scheme.name = <<"B","e","a","r","e","r","A","u","t","h">>
    /\ auth_field.location = [tag |-> "Bearer"]

----------------------------------------------------------------------------
(* Server extractor: extract_servers *)

\* oa::Server; the Option description is the sequence of at most one string
Server(server_url, description) == [url |-> server_url, description |-> description]

DefaultKey == <<"d","e","f","a","u","l","t">>

\* the keywords, in the order of the inner loop
ServerKeywords == << <<"b","e","t","a">>, <<"p","r","o","d","u","c","t","i","o","n">>,
                     <<"d","e","v","e","l","o","p","m","e","n","t">>,
                     <<"s","a","n","d","b","o","x">> >>

\* the keywords a description matches: Some(desc) with the keyword in its lower case
MatchingKeywords(server) ==
    {k \in 1..Len(ServerKeywords) :
       /\ server.description # <<>>
       /\ Contains(to_lowercase(server.description[1]), ServerKeywords[k])}

\* m with key k set to v (BTreeMap::insert)
MapInsert(m, k, v) == [x \in DOMAIN m \cup {k} |-> IF x = k THEN v ELSE m[x]]

EmptyMap == [x \in {} |-> <<>>]

RECURSIVE ServersLoop(_, _, _)
\* the 'outer loop from server i on, with the map built so far
ServersLoop(ss, i, m) ==
    IF i > Len(ss) THEN m
    ELSE IF MatchingKeywords(ss[i]) = {} THEN EmptyMap
    ELSE LET k == CHOOSE x \in MatchingKeywords(ss[i]) :
                    \A y \in MatchingKeywords(ss[i]) : x <= y
         IN  ServersLoop(ss, i + 1, MapInsert(m, ServerKeywords[k], ss[i].url))

\* mutant of extract_servers: no special case for a single server
extract_servers_loop_only(ss) == ServersLoop(ss, 1, EmptyMap)

extract_servers(ss) ==
    IF Len(ss) = 1 THEN MapInsert(EmptyMap, DefaultKey, ss[1].url)
    ELSE ServersLoop(ss, 1, EmptyMap)

\* Bound: the number of servers the document declares.
MaxServers == 2

ServerUrlPool == { <<"u","1">>, <<"u","2">> }

DescriptionPool == { <<>>, <<<<"B","e","t","a">>>>, <<<<"P","r","o","d","u","c","t","i","o","n"," ","A","P","I">>>>,
                     <<<<"s","a","n","d","b","o","x"," ","(","b","e","t","a",")">>>>,
                     <<<<"S","t","a","g","i","n","g">>>> }

ServerPool == {Server(u, d) : u \in ServerUrlPool, d \in DescriptionPool}

ServersInit ==
    /\ pc = "extract_servers"
    /\ servers \in UNION {[1..k -> ServerPool] : k \in 0..MaxServers}
    /\ server_map = Unused
    /\ SanitizerIdle /\ NamingIdle /\ SecurityIdle /\ InputIdle /\ ResponseIdle

ExtractServers ==
    /\ pc = "extract_servers"
    /\ server_map' = extract_servers(servers)
    /\ pc' = "servers_extracted"
    /\ UNCHANGED <<servers, sanitizerVars, namingVars, securityVars, inputVars,
                   responseVars>>

ServersNext == ExtractServers

SpecServers == ServersInit /\ [][ServersNext]_vars

\* C6: a document with exactly one server gives a map with exactly one entry, keyed
\* "default" and valued with that server's URL, whatever its description is.
C6_SingleServerIsDefault ==
    (pc = "servers_extracted" /\ Len(servers) = 1) =>
        /\ DOMAIN server_map = { <<"d","e","f","a","u","l","t">> }
        /\ server_map[<<"d","e","f","a","u","l","t">>] = servers[1].url

\* C6 witness: a single server whose description names a keyword, registered as default
C6_Witness ==
    /\ pc = "servers_extracted"
    /\ Len(servers) = 1
    /\ servers[1].description = <<<<"B","e","t","a">>>>
    /\ DOMAIN server_map = { <<"d","e","f","a","u","l","t">> }

----------------------------------------------------------------------------
(* Operation extractor: extract_inputs and the sort of extract_api_operations *)

TyInteger == [tag |-> "Integer"]
TyBoolean == [tag |-> "Boolean"]

\* the request schema extract_request_schema finds: none (Err), an array with its
\* Option items as a sequence of at most one type, an object, or another shape
NoBody             == [kind |-> "None"]
ArrayBody(items)   == [kind |-> "Array", items |-> items]
ObjectBody(props)  == [kind |-> "Object", properties |-> props]
OtherBody          == [kind |-> "Other"]

\* a property of an object schema: its resolved type, nullable, and whether the
\* object's required list names it
Property(name, ty, nullable, required) ==
    [name |-> name, ty |-> ty, nullable |-> nullable, required |-> required]

BodyName == <<"b","o","d","y">>

\* is_optional
is_optional(prop) == prop.nullable \/ ~prop.required

\* inputs.iter().any(|p| p.name == name)
HasName(ps, name) == \E i \in 1..Len(ps) : ps[i].name = name

\* mutant of MergeByName: every parameter is pushed
MergeByName_push_all(ps, more) == ps \o more

RECURSIVE MergeByName(_, _)
\* the loops at lines 92-96 and 132-136: push each parameter whose name is not taken
MergeByName(ps, more) ==
    IF more = <<>> THEN ps
    ELSE IF HasName(ps, Head(more).name) THEN MergeByName(ps, Tail(more))
    ELSE MergeByName(Append(ps, Head(more)), Tail(more))

\* body_args: the properties as Body parameters
BodyArgs(props) ==
    [i \in 1..Len(props) |->
       Parameter(props[i].name, "Body", props[i].ty, is_optional(props[i]))]

extract_inputs(op_params, item_params, body) ==
    LET merged == MergeByName(op_params, item_params)
    IN  IF body.kind = "None" THEN merged
        ELSE IF body.kind = "Array"
             THEN Append(merged,
                    Parameter(BodyName, "Body",
                              TyArray(IF body.items = <<>> THEN TyAny ELSE body.items[1]),
                              FALSE))
        ELSE IF body.kind = "Object" THEN MergeByName(merged, BodyArgs(body.properties))
        ELSE Append(merged, Parameter(BodyName, "Body", TyAny, FALSE))

\* the order of characters in a string comparison
CharOrder == UpperChars \o <<"_">> \o LowerChars

RECURSIVE NameLess(_, _)
\* a.name.cmp(&b.name) = Less
NameLess(a, b) ==
    IF b = <<>> THEN FALSE
    ELSE IF a = <<>> THEN TRUE
    ELSE IF a[1] = b[1] THEN NameLess(Tail(a), Tail(b))
    ELSE IndexIn(a[1], CharOrder) < IndexIn(b[1], CharOrder)

RECURSIVE InsertSorted(_, _)
\* p put after the parameters that are not greater than it
InsertSorted(sorted, p) ==
    IF sorted = <<>> THEN <<p>>
    ELSE IF NameLess(p.name, sorted[1].name) THEN <<p>> \o sorted
    ELSE <<sorted[1]>> \o InsertSorted(Tail(sorted), p)

RECURSIVE SortByName(_)
\* parameters.sort_by(|a, b| a.name.cmp(&b.name)), a stable sort
SortByName(ps) ==
    IF ps = <<>> THEN <<>>
    ELSE InsertSorted(SortByName(SubSeq(ps, 1, Len(ps) - 1)), ps[Len(ps)])

\* Bound: the number of parameters declared at one level.
MaxParams == 2

ParamNamePool == { <<"a">>, <<"i","d">> }

\* the resolved parameters of the operation and of the path item
ParamPool == {Parameter(n, "Query", ty, FALSE) : n \in ParamNamePool, ty \in {TyString, TyInteger}}

ParamSeqs == UNION {[1..k -> ParamPool] : k \in 0..MaxParams}

PropertyPool == {Property(n, TyBoolean, FALSE, r) : n \in ParamNamePool, r \in BOOLEAN}

\* the properties of an object: their names are distinct
PropertySeqs ==
    UNION {{ps \in [1..k -> PropertyPool] :
              \A i \in 1..k, j \in 1..k : i # j => ps[i].name # ps[j].name} :
           k \in 0..Cardinality(ParamNamePool)}

BodyPool == {NoBody, OtherBody, ArrayBody(<<>>), ArrayBody(<<TyString>>)}
            \cup {ObjectBody(ps) : ps \in PropertySeqs}

InputsInit ==
    /\ pc = "extract_inputs"
    /\ op_parameters \in ParamSeqs
    /\ item_parameters \in ParamSeqs
    /\ request_body \in BodyPool
    /\ inputs = Unused
    /\ parameters = Unused
    /\ SanitizerIdle /\ NamingIdle /\ ServerIdle /\ SecurityIdle /\ ResponseIdle

\* extract_api_operations, lines 242-243: the inputs are extracted and sorted
ExtractInputs ==
    /\ pc = "extract_inputs"
    /\ inputs' = extract_inputs(op_parameters, item_parameters, request_body)
    /\ parameters' = SortByName(inputs')
    /\ pc' = "inputs_extracted"
    /\ UNCHANGED <<op_parameters, item_parameters, request_body,
                   sanitizerVars, namingVars, serverVars, securityVars, responseVars>>

InputsNext == ExtractInputs

SpecInputs == InputsInit /\ [][InputsNext]_vars

\* the names of a parameter list
NamesOf(ps) == {ps[i].name : i \in 1..Len(ps)}

\* the path-item parameters C10 keeps: no operation-level parameter and no earlier
\* path-item parameter has the name
KeptItemParams ==
    LET keep(i) == /\ item_parameters[i].name \notin NamesOf(op_parameters)
                   /\ \A j \in 1..(i - 1) : item_parameters[j].name # item_parameters[i].name
        idx == {i \in 1..Len(item_parameters) : keep(i)}
        nth(k) == CHOOSE i \in idx : Cardinality({j \in idx : j < i}) = k - 1
    IN  [k \in 1..Cardinality(idx) |-> item_parameters[nth(k)]]

\* the body properties C10 keeps, as Body parameters: no operation-level and no
\* path-item parameter has the name
KeptBodyParams ==
    LET props == request_body.properties
        taken == NamesOf(op_parameters) \cup NamesOf(item_parameters)
        idx == {i \in 1..Len(props) : props[i].name \notin taken}
        nth(k) == CHOOSE i \in idx : Cardinality({j \in idx : j < i}) = k - 1
    IN  [k \in 1..Cardinality(idx) |->
           [name |-> props[nth(k)].name, location |-> "Body", ty |-> props[nth(k)].ty,
            optional |-> (props[nth(k)].nullable \/ ~props[nth(k)].required)]]

\* C10: extract_inputs keeps every operation-level parameter, appends a path-item
\* parameter only if no already-collected parameter has its name, and appends a
\* flattened body property (Location=Body) only if no already-collected parameter has
\* its name; of a name declared at several levels the highest level's entry survives.
C10_ParameterPrecedence ==
    pc = "inputs_extracted" =>
        LET collected == op_parameters \o KeptItemParams
        IN  /\ Len(inputs) >= Len(collected)
            /\ SubSeq(inputs, 1, Len(collected)) = collected
            /\ request_body.kind = "None" => inputs = collected
            /\ request_body.kind = "Object" => inputs = collected \o KeptBodyParams
            /\ \A n \in NamesOf(op_parameters) :
                 SelectSeq(SubSeq(inputs, 1, Len(collected)), LAMBDA p : p.name = n)
                   = SelectSeq(op_parameters, LAMBDA p : p.name = n)
            /\ request_body.kind = "Object" =>
                 \A n \in NamesOf(op_parameters) \cup NamesOf(item_parameters) :
                    \A i \in 1..Len(inputs) : inputs[i].name = n => inputs[i].location # "Body"

\* C10 witness: a name declared at all three levels, extracted
C10_Witness ==
    /\ pc = "inputs_extracted"
    /\ request_body.kind = "Object"
    /\ \E n \in NamesOf(op_parameters) \cap NamesOf(item_parameters) :
         /\ \E i \in 1..Len(request_body.properties) : request_body.properties[i].name = n
         /\ \E i \in 1..Len(item_parameters) :
              item_parameters[i].name = n /\ item_parameters[i].ty # op_parameters[1].ty
    /\ Len(inputs) > Len(op_parameters)

----------------------------------------------------------------------------
(* Success response: extract_response_success and the return type *)

\* Media types, component names and status codes are only looked up, never
\* taken apart: they are atoms.
JsonMedia == "application/json"
TextMedia == "text/plain"

\* oa::StatusCode
Code(n)      == [tag |-> "Code", n |-> n]
RangeCode(n) == [tag |-> "Range", n |-> n]

\* Option
None    == [tag |-> "None"]
Some(v) == [tag |-> "Some", value |-> v]

\* the outcome of a call that panics
Panic == [tag |-> "Panic"]

\* ReferenceOr<Schema>
SchemaReference(name) == [kind |-> "Reference", name |-> name]
SchemaArray(items)    == [kind |-> "Array", items |-> items]
SchemaString          == [kind |-> "String"]

RECURSIVE schema_ref_to_ty(_)
\* the type resolver: a reference is the model of that name, an array is the
\* array of its item type, Any when it has no items
schema_ref_to_ty(schema) ==
    IF schema.kind = "Reference" THEN TyModel(schema.name)
    ELSE IF schema.kind = "Array"
         THEN TyArray(IF schema.items = <<>> THEN TyAny
                      ELSE schema_ref_to_ty(schema.items[1]))
    ELSE TyString

\* oa::MediaType: schema is an Option
MediaType(schema) == [schema |-> schema]

\* ReferenceOr<oa::Response>
Response(content)       == [kind |-> "Item", content |-> content]
ResponseReference(name) == [kind |-> "Reference", name |-> name]

\* IndexMap::get
Get(map, key) == IF key \in DOMAIN map THEN Some(map[key]) ELSE None

\* Option::or_else
OrElse(opt, alt) == IF opt # None THEN opt ELSE alt

\* ReferenceOr<Response>::resolve(spec): an item is itself, a reference is the
\* component of that name, an error when there is none
resolve(response, components) ==
    IF response.kind = "Item" THEN Some(response)
    ELSE Get(components, response.name)

\* mutant of extract_response_success: 201 is looked up before 200
extract_response_success_201_first(resps, components) ==
    LET response ==
            OrElse(OrElse(OrElse(OrElse(Get(resps, Code(201)),
                                        Get(resps, Code(200))),
                                 Get(resps, Code(202))),
                          Get(resps, Code(204))),
                   Get(resps, Code(302)))
    IN  IF response = None THEN None
        ELSE LET resolved == resolve(response.value, components)
             IN  IF resolved = None THEN Panic
                 ELSE LET media == Get(resolved.value.content, JsonMedia)
                      IN  IF media = None THEN None ELSE media.value.schema

\* extract_response_success: the JSON schema of the first response found under
\* 200, 201, 202, 204, 302; None when no response is found, or when the one found
\* has no application/json content or no schema in it; a panic when the one found
\* is a reference that does not resolve
extract_response_success(resps, components) ==
    LET response ==
            OrElse(OrElse(OrElse(OrElse(Get(resps, Code(200)),
                                        Get(resps, Code(201))),
                                 Get(resps, Code(202))),
                          Get(resps, Code(204))),
                   Get(resps, Code(302)))
    IN  IF response = None THEN None
        ELSE LET resolved == resolve(response.value, components)
             IN  IF resolved = None THEN Panic
                 ELSE LET media == Get(resolved.value.content, JsonMedia)
                      IN  IF media = None THEN None ELSE media.value.schema

\* extract_api_operations, lines 244-248: the operation's return type
operation_ret(resps, components) ==
    LET response_success == extract_response_success(resps, components)
    IN  IF response_success = Panic THEN Panic
        ELSE IF response_success = None THEN TyUnit
        ELSE schema_ref_to_ty(response_success.value)

\* Bound: the number of responses an operation declares.
MaxResponses == 3

\* the status codes a document declares responses under
StatusCodePool == {Code(200), Code(201), Code(202), Code(204), Code(302),
                   Code(404), RangeCode(2)}

OkResponseName == "Ok"

JsonContent(schema) == [m \in {JsonMedia} |-> MediaType(schema)]
TextContent(schema) == [m \in {TextMedia} |-> MediaType(schema)]
EmptyContent        == [m \in {} |-> MediaType(None)]

\* the responses of a document: JSON content with a referenced or an array
\* schema, JSON content without a schema, content of another media type only,
\* no content, and a reference to a component response
ResponsePool ==
    { Response(JsonContent(Some(SchemaReference(NameA)))),
      Response(JsonContent(Some(SchemaArray(<<>>)))),
      Response(JsonContent(None)),
      Response(TextContent(Some(SchemaReference(NameB)))),
      Response(EmptyContent),
      ResponseReference(OkResponseName) }

ResponsesPool ==
    UNION {[codes -> ResponsePool] :
             codes \in {cs \in SUBSET StatusCodePool : Cardinality(cs) <= MaxResponses}}

\* components.responses: empty, or holding the response the reference names
ResponseComponentsPool ==
    { [n \in {} |-> Response(EmptyContent)],
      [n \in {OkResponseName} |->
         Response(JsonContent(Some(SchemaArray(<<SchemaReference(NameB)>>))))] }

ResponseInit ==
    /\ pc = "extract_response_success"
    /\ responses \in ResponsesPool
    /\ response_components \in ResponseComponentsPool
    /\ op_ret = Unused
    /\ SanitizerIdle /\ NamingIdle /\ ServerIdle /\ SecurityIdle /\ InputIdle

\* extract_api_operations, lines 244-248: the success response is looked up and
\* its schema resolved to the return type; a panic ends the extraction
ExtractResponseSuccess ==
    /\ pc = "extract_response_success"
    /\ op_ret' = operation_ret(responses, response_components)
    /\ pc' = IF op_ret' = Panic THEN "panicked" ELSE "response_extracted"
    /\ UNCHANGED <<responses, response_components,
                   sanitizerVars, namingVars, serverVars, securityVars, inputVars>>

ResponseNext == ExtractResponseSuccess

SpecResponse == ResponseInit /\ [][ResponseNext]_vars

\* the five codes in the order the claim gives them
SuccessCodes == <<Code(200), Code(201), Code(202), Code(204), Code(302)>>

\* the positions in SuccessCodes of the codes the operation declares a response for
DeclaredSuccess == {i \in 1..Len(SuccessCodes) : SuccessCodes[i] \in DOMAIN responses}

\* the first declared of the five codes
FirstDeclared == SuccessCodes[CHOOSE i \in DeclaredSuccess : \A j \in DeclaredSuccess : i <= j]

\* the response declared for the first declared code, references followed
FirstResponse ==
    LET r == responses[FirstDeclared]
    IN  IF r.kind = "Reference" THEN response_components[r.name] ELSE r

\* the response has application/json content with a schema
HasJsonSchema(response) ==
    /\ JsonMedia \in DOMAIN response.content
    /\ response.content[JsonMedia].schema # None

\* the responses with the response under one code replaced, added or removed
WithResponse(code, r) ==
    [c \in DOMAIN responses \cup {code} |-> IF c = code THEN r ELSE responses[c]]
WithoutResponse(code) == [c \in DOMAIN responses \ {code} |-> responses[c]]

\* the codes that come after the first declared one in the order
LaterCodes ==
    {SuccessCodes[k] : k \in {j \in 1..Len(SuccessCodes) : \E i \in DeclaredSuccess : i < j}}

\* C11: the return type of an extracted operation comes from the first of 200,
\* 201, 202, 204, 302 the operation declares a response for: it is the resolved
\* type of that response's JSON content schema; what is declared under the later
\* codes makes no difference to it; and it is Unit when none of the five is declared.
C11_ReturnTypeFromFirstSuccessCode ==
    pc = "response_extracted" =>
        IF DeclaredSuccess = {} THEN op_ret = TyUnit
        ELSE /\ HasJsonSchema(FirstResponse) =>
                  op_ret = schema_ref_to_ty(FirstResponse.content[JsonMedia].schema.value)
             /\ \A later \in LaterCodes :
                  /\ operation_ret(WithoutResponse(later), response_components) = op_ret
                  /\ \A r \in ResponsePool :
                       operation_ret(WithResponse(later, r), response_components) = op_ret

\* Where C11 is silent: a first declared response without a JSON schema gives Unit,
\* whatever the later codes declare, and the extraction panics exactly when the
\* first declared response is a reference to a component that does not exist.
FirstResponseWithoutSchema ==
    /\ pc = "response_extracted" /\ DeclaredSuccess # {} /\ ~HasJsonSchema(FirstResponse)
         => op_ret = TyUnit
    /\ pc = "panicked" <=>
         /\ pc # "extract_response_success"
         /\ DeclaredSuccess # {}
         /\ responses[FirstDeclared].kind = "Reference"
         /\ responses[FirstDeclared].name \notin DOMAIN response_components

\* C11 witness: 200 is not declared, 201 and a later code are declared with JSON
\* schemas of different types, and the return type is the type of 201's schema
C11_Witness ==
    /\ pc = "response_extracted"
    /\ Code(200) \notin DOMAIN responses
    /\ Code(201) \in DOMAIN responses
    /\ responses[Code(201)].kind = "Item"
    /\ HasJsonSchema(responses[Code(201)])
    /\ \E later \in {Code(202), Code(204), Code(302)} \cap DOMAIN responses :
         /\ responses[later].kind = "Item"
         /\ HasJsonSchema(responses[later])
         /\ responses[later] # responses[Code(201)]
    /\ op_ret = schema_ref_to_ty(responses[Code(201)].content[JsonMedia].schema.value)
    /\ op_ret # TyUnit

====
